---- MODULE Spec2Model ----
(***************************************************************************)
(* CoDSPy (v1_CoT_CodeLlama.py, v3_ReAct.py): the three-stage pipeline     *)
(* CodeForge.process and the click handler process_code that guards it.    *)
(* The two variants differ only in the dspy module behind each stage       *)
(* (ChainOfThought / ReAct); analyze, optimize, create_tests, process and  *)
(* process_code are line-for-line the same, so one model covers both.      *)
(*                                                                         *)
(* The language model is the environment: every invocation of a stage's    *)
(* dspy module either raises an Exception or returns a prediction, and     *)
(* reading an output field of a prediction either yields a str or raises.  *)
(***************************************************************************)
EXTENDS Integers, Sequences, FiniteSets, TLC

VARIABLES pc, entry, code, analysis, optimized, tests, results, outputs, raised,
          calls, outA, outO, outT

vars == <<pc, entry, code, analysis, optimized, tests, results, outputs, raised,
          calls, outA, outO, outT>>

-----------------------------------------------------------------------------
(* Bounds and input alphabets *)

MaxLen == 2

Chars == {" ", "\n", "x", "y"}

Codes == UNION {[1..n -> Chars] : n \in 0..MaxLen}

ConcCodes == {<<" ">>, <<"x">>, <<"y">>}

Msgs == {"timeout"}

Texts == {"", "ok"}

Submissions == {"s1", "s2"}

-----------------------------------------------------------------------------
(* Python values *)

PyStr(s) == [type |-> "str", val |-> s]

PyNone == [type |-> "NoneType", val |-> ""]

Exc(m) == [type |-> "Exception", val |-> m]

GrError(m) == [type |-> "gr.Error", val |-> m]

Str(e) == e.val

Return(v) == [kind |-> "return", val |-> v]

Raise(e) == [kind |-> "raise", val |-> e]

(* What reading one output field of a prediction can do. *)
AttrOutcomes == {Return(PyStr(t)) : t \in Texts} \cup {Raise(Exc(m)) : m \in Msgs}

(* What one invocation of a dspy module with the given output fields can do. *)
ModelOutcomes(fields) ==
    {Raise(Exc(m)) : m \in Msgs} \cup {Return(p) : p \in [fields -> AttrOutcomes]}

AnalyzerOutcomes == ModelOutcomes({"issues", "suggestions"})

OptimizerOutcomes == ModelOutcomes({"optimized_code"})

TesterOutcomes == ModelOutcomes({"test_cases", "test_code"})

Invocation(module, c, s) == [module |-> module, code |-> c, suggestions |-> s]

-----------------------------------------------------------------------------
(* str.strip() *)

Whitespace == {" ", "\t", "\n", "\r", "\f"}

RECURSIVE lstrip(_)
lstrip(s) == IF s # <<>> /\ Head(s) \in Whitespace THEN lstrip(Tail(s)) ELSE s

RECURSIVE rstrip(_)
rstrip(s) ==
    IF s # <<>> /\ s[Len(s)] \in Whitespace THEN rstrip(SubSeq(s, 1, Len(s) - 1)) ELSE s

(* Variant: the handler tests "if not code:" and strips nothing. *)
stripNothing(s) == s

strip(s) == rstrip(lstrip(s))

-----------------------------------------------------------------------------
(* The stages.  Each returns the value the method returns (or the exception *)
(* that leaves it) together with the dspy invocations it made.              *)

AnalyzeTry(out) ==
    IF out.kind = "raise" THEN out
    ELSE IF out.val["issues"].kind = "raise" THEN out.val["issues"]
    ELSE IF out.val["suggestions"].kind = "raise" THEN out.val["suggestions"]
    ELSE Return([issues |-> out.val["issues"].val,
                 suggestions |-> out.val["suggestions"].val])

(* Variant: the handler puts the exception itself, not its text, in issues. *)
AnalyzeExceptRaw(e) ==
    Return([issues |-> e,
            suggestions |-> PyStr("No suggestions available")])

(* Variant: the handler leaves suggestions empty. *)
AnalyzeExceptBlank(e) ==
    Return([issues |-> PyStr("Analysis error: " \o Str(e)),
            suggestions |-> PyStr("")])

AnalyzeExcept(e) ==
    Return([issues |-> PyStr("Analysis error: " \o Str(e)),
            suggestions |-> PyStr("No suggestions available")])

(* Variant: a failed attempt is retried once. *)
analyzeRetry(c, out) ==
    [ret |-> IF AnalyzeTry(out).kind = "raise"
             THEN AnalyzeExcept(AnalyzeTry(out).val)
             ELSE AnalyzeTry(out),
     invoked |-> IF AnalyzeTry(out).kind = "raise"
                 THEN <<Invocation("analyze_code", c, PyNone),
                        Invocation("analyze_code", c, PyNone)>>
                 ELSE <<Invocation("analyze_code", c, PyNone)>>]

(* Variant: issues is read before the try, so a failure while reading *)
(* suggestions keeps the genuine issues.                               *)
analyzePartial(c, out) ==
    [ret |-> IF /\ out.kind = "return"
                /\ out.val["issues"].kind = "return"
                /\ out.val["suggestions"].kind = "raise"
             THEN Return([issues |-> out.val["issues"].val,
                          suggestions |-> PyStr("No suggestions available")])
             ELSE IF AnalyzeTry(out).kind = "raise"
             THEN AnalyzeExcept(AnalyzeTry(out).val)
             ELSE AnalyzeTry(out),
     invoked |-> <<Invocation("analyze_code", c, PyNone)>>]

analyze(c, out) ==
    [ret |-> IF AnalyzeTry(out).kind = "raise"
             THEN AnalyzeExcept(AnalyzeTry(out).val)
             ELSE AnalyzeTry(out),
     invoked |-> <<Invocation("analyze_code", c, PyNone)>>]

OptimizeTry(out) ==
    IF out.kind = "raise" THEN out
    ELSE IF out.val["optimized_code"].kind = "raise" THEN out.val["optimized_code"]
    ELSE Return(out.val["optimized_code"].val)

OptimizeExcept(e) == Return(PyStr("Optimization error: " \o Str(e)))

(* Variant: optimize without its except clause. *)
optimizeNoExcept(c, suggestions, out) ==
    [ret |-> OptimizeTry(out),
     invoked |-> <<Invocation("optimize_code", c, suggestions)>>]

optimize(c, suggestions, out) ==
    [ret |-> IF OptimizeTry(out).kind = "raise"
             THEN OptimizeExcept(OptimizeTry(out).val)
             ELSE OptimizeTry(out),
     invoked |-> <<Invocation("optimize_code", c, suggestions)>>]

CreateTestsTry(out) ==
    IF out.kind = "raise" THEN out
    ELSE IF out.val["test_cases"].kind = "raise" THEN out.val["test_cases"]
    ELSE IF out.val["test_code"].kind = "raise" THEN out.val["test_code"]
    ELSE Return([test_cases |-> out.val["test_cases"].val,
                 test_code |-> out.val["test_code"].val])

CreateTestsExcept(e) ==
    Return([test_cases |-> PyStr("Test generation failed: " \o Str(e)),
            test_code |-> PyStr("Unable to generate test code")])

create_tests(c, out) ==
    [ret |-> IF CreateTestsTry(out).kind = "raise"
             THEN CreateTestsExcept(CreateTestsTry(out).val)
             ELSE CreateTestsTry(out),
     invoked |-> <<Invocation("generate_tests", c, PyNone)>>]

-----------------------------------------------------------------------------
(* CodeForge.process and process_code, one thread of control per submission *)

NoAnalysis == [issues |-> PyNone, suggestions |-> PyNone]

NoTests == [test_cases |-> PyNone, test_code |-> PyNone]

NoResults == [k \in {} |-> PyNone]

NoOutcome == [kind |-> "none", val |-> PyNone]

Init ==
    /\ pc = [i \in Submissions |-> "idle"]
    /\ entry = [i \in Submissions |-> "none"]
    /\ code = [i \in Submissions |-> <<>>]
    /\ analysis = [i \in Submissions |-> NoAnalysis]
    /\ optimized = [i \in Submissions |-> PyNone]
    /\ tests = [i \in Submissions |-> NoTests]
    /\ results = [i \in Submissions |-> NoResults]
    /\ outputs = [i \in Submissions |-> <<>>]
    /\ raised = [i \in Submissions |-> PyNone]
    /\ calls = [i \in Submissions |-> <<>>]
    /\ outA = [i \in Submissions |-> NoOutcome]
    /\ outO = [i \in Submissions |-> NoOutcome]
    /\ outT = [i \in Submissions |-> NoOutcome]

(* A fresh call of thread i with argument c: its locals unbound. *)
Fresh(i, c) ==
    /\ pc[i] \in {"idle", "done", "error"}
    /\ code' = [code EXCEPT ![i] = c]
    /\ analysis' = [analysis EXCEPT ![i] = NoAnalysis]
    /\ optimized' = [optimized EXCEPT ![i] = PyNone]
    /\ tests' = [tests EXCEPT ![i] = NoTests]
    /\ results' = [results EXCEPT ![i] = NoResults]
    /\ outputs' = [outputs EXCEPT ![i] = <<>>]
    /\ calls' = [calls EXCEPT ![i] = <<>>]
    /\ outA' = [outA EXCEPT ![i] = NoOutcome]
    /\ outO' = [outO EXCEPT ![i] = NoOutcome]
    /\ outT' = [outT EXCEPT ![i] = NoOutcome]

(* process_code up to the call of forge.process: the validation. *)
Submit(i, c) ==
    /\ Fresh(i, c)
    /\ entry' = [entry EXCEPT ![i] = "process_code"]
    /\ IF strip(c) = <<>>
       THEN /\ raised' = [raised EXCEPT ![i] = GrError("Please input some code to analyze!")]
            /\ pc' = [pc EXCEPT ![i] = "error"]
       ELSE /\ raised' = [raised EXCEPT ![i] = PyNone]
            /\ pc' = [pc EXCEPT ![i] = "analyze"]

(* CodeForge.process called on its own, as a test or another caller would. *)
Process(i, c) ==
    /\ Fresh(i, c)
    /\ entry' = [entry EXCEPT ![i] = "process"]
    /\ raised' = [raised EXCEPT ![i] = PyNone]
    /\ pc' = [pc EXCEPT ![i] = "analyze"]

(* analysis = self.analyzer.analyze(code) *)
AnalyzeStep(i, out) ==
    /\ pc[i] = "analyze"
    /\ outA' = [outA EXCEPT ![i] = out]
    /\ calls' = [calls EXCEPT ![i] = @ \o analyze(code[i], out).invoked]
    /\ IF analyze(code[i], out).ret.kind = "raise"
       THEN /\ raised' = [raised EXCEPT ![i] = analyze(code[i], out).ret.val]
            /\ pc' = [pc EXCEPT ![i] = "error"]
            /\ UNCHANGED analysis
       ELSE /\ analysis' = [analysis EXCEPT ![i] = analyze(code[i], out).ret.val]
            /\ pc' = [pc EXCEPT ![i] = "optimize"]
            /\ UNCHANGED raised
    /\ UNCHANGED <<entry, code, optimized, tests, results, outputs, outO, outT>>

(* Variant: placeholder text is not forwarded to the optimizer. *)
SuggestionsArgFiltered(i) ==
    IF analysis[i].suggestions = PyStr("No suggestions available")
    THEN PyStr("")
    ELSE analysis[i].suggestions

(* Variant: the analysis is kept in a field of the shared forge, where a   *)
(* submission that has analysed but not yet optimised has overwritten it.  *)
SuggestionsArgShared(i) ==
    IF \E j \in Submissions \ {i} : pc[j] = "optimize"
    THEN analysis[CHOOSE j \in Submissions \ {i} : pc[j] = "optimize"].suggestions
    ELSE analysis[i].suggestions

(* The second argument of self.optimizer.optimize(code, analysis["suggestions"]) *)
SuggestionsArg(i) == analysis[i].suggestions

(* optimized = self.optimizer.optimize(code, analysis["suggestions"]) *)
OptimizeStep(i, out) ==
    /\ pc[i] = "optimize"
    /\ outO' = [outO EXCEPT ![i] = out]
    /\ calls' = [calls EXCEPT ![i] = @ \o optimize(code[i], SuggestionsArg(i), out).invoked]
    /\ IF optimize(code[i], SuggestionsArg(i), out).ret.kind = "raise"
       THEN /\ raised' = [raised EXCEPT ![i] = optimize(code[i], SuggestionsArg(i), out).ret.val]
            /\ pc' = [pc EXCEPT ![i] = "error"]
            /\ UNCHANGED optimized
       ELSE /\ optimized' = [optimized EXCEPT ![i] = optimize(code[i], SuggestionsArg(i), out).ret.val]
            /\ pc' = [pc EXCEPT ![i] = "test"]
            /\ UNCHANGED raised
    /\ UNCHANGED <<entry, code, analysis, tests, results, outputs, outA, outT>>

(* Variant: a test-generation failure is also reported in issues. *)
ResultRecordErrorInIssues(a, o, t) ==
    [issues |-> IF t.test_code = PyStr("Unable to generate test code")
                THEN t.test_cases ELSE a.issues,
     suggestions |-> a.suggestions,
     optimized_code |-> o,
     test_cases |-> t.test_cases,
     test_code |-> t.test_code]

(* Variant: after a failed analysis the generated tests are dropped. *)
ResultRecordTestsNeedAnalysis(a, o, t) ==
    [issues |-> a.issues,
     suggestions |-> a.suggestions,
     optimized_code |-> o,
     test_cases |-> IF a.suggestions = PyStr("No suggestions available")
                    THEN PyStr("No test cases") ELSE t.test_cases,
     test_code |-> t.test_code]

(* The dict CodeForge.process returns. *)
ResultRecord(a, o, t) ==
    [issues |-> a.issues,
     suggestions |-> a.suggestions,
     optimized_code |-> o,
     test_cases |-> t.test_cases,
     test_code |-> t.test_code]

(* The tuple process_code hands to the five output components. *)
OutputTuple(r) ==
    <<r.issues, r.suggestions, r.optimized_code, r.test_cases, r.test_code>>

(* tests = self.tester.create_tests(code); return {...}; and process_code's *)
(* return of the five values.                                               *)
TestStep(i, out) ==
    /\ pc[i] = "test"
    /\ outT' = [outT EXCEPT ![i] = out]
    /\ calls' = [calls EXCEPT ![i] = @ \o create_tests(code[i], out).invoked]
    /\ IF create_tests(code[i], out).ret.kind = "raise"
       THEN /\ raised' = [raised EXCEPT ![i] = create_tests(code[i], out).ret.val]
            /\ pc' = [pc EXCEPT ![i] = "error"]
            /\ UNCHANGED <<tests, results, outputs>>
       ELSE /\ tests' = [tests EXCEPT ![i] = create_tests(code[i], out).ret.val]
            /\ results' = [results EXCEPT ![i] =
                              ResultRecord(analysis[i], optimized[i],
                                           create_tests(code[i], out).ret.val)]
            /\ outputs' = [outputs EXCEPT ![i] =
                              IF entry[i] = "process_code"
                              THEN OutputTuple(ResultRecord(analysis[i], optimized[i],
                                                            create_tests(code[i], out).ret.val))
                              ELSE <<>>]
            /\ pc' = [pc EXCEPT ![i] = "done"]
            /\ UNCHANGED raised
    /\ UNCHANGED <<entry, code, analysis, optimized, outA, outO>>

Run(i) ==
    \/ \E out \in AnalyzerOutcomes : AnalyzeStep(i, out)
    \/ \E out \in OptimizerOutcomes : OptimizeStep(i, out)
    \/ \E out \in TesterOutcomes : TestStep(i, out)

(* One caller, one call at a time. *)
Next ==
    \/ \E c \in Codes : Submit("s1", c)
    \/ \E c \in Codes : Process("s1", c)
    \/ Run("s1")

Spec == Init /\ [][Next]_vars

(* The same, the blocking calls always returning. *)
FairSpec == Spec /\ WF_vars(Run("s1"))

(* Two submissions in flight on the one forge instance. *)
NextConc ==
    \/ \E i \in Submissions, c \in ConcCodes : Submit(i, c)
    \/ \E i \in Submissions : Run(i)

SpecConc == Init /\ [][NextConc]_vars

-----------------------------------------------------------------------------
(* Vocabulary of the properties: what a stage is required to return, stated *)
(* from the outcome of its model invocation.                                *)

Keys == {"issues", "suggestions", "optimized_code", "test_cases", "test_code"}

AnalyzerFields == <<"issues", "suggestions">>

OptimizerFields == <<"optimized_code">>

TesterFields == <<"test_cases", "test_code">>

StageOrder == <<"analyze_code", "optimize_code", "generate_tests">>

IsBlank(c) == \A k \in 1..Len(c) : c[k] \in Whitespace

CallFailed(out) == out.kind = "raise"

ReadFails(out, fields, k) == out.val[fields[k]].kind = "raise"

(* The guarded block fails: the call raises, or reading a field raises. *)
StageFailed(out, fields) ==
    \/ out.kind = "raise"
    \/ /\ out.kind = "return"
       /\ \E k \in 1..Len(fields) : ReadFails(out, fields, k)

StageSucceeded(out, fields) ==
    /\ out.kind = "return"
    /\ \A k \in 1..Len(fields) : ~ReadFails(out, fields, k)

(* The message of the first exception raised in the guarded block. *)
FailureMsg(out, fields) ==
    IF out.kind = "raise" THEN out.val.val
    ELSE out.val[fields[CHOOSE k \in 1..Len(fields) :
                            /\ ReadFails(out, fields, k)
                            /\ \A j \in 1..(k - 1) : ~ReadFails(out, fields, j)]].val.val

AnalysisPlaceholder(m) ==
    [issues |-> PyStr("Analysis error: " \o m),
     suggestions |-> PyStr("No suggestions available")]

OptimizedPlaceholder(m) == PyStr("Optimization error: " \o m)

TestsPlaceholder(m) ==
    [test_cases |-> PyStr("Test generation failed: " \o m),
     test_code |-> PyStr("Unable to generate test code")]

ExpectedAnalysis(out) ==
    IF StageFailed(out, AnalyzerFields)
    THEN AnalysisPlaceholder(FailureMsg(out, AnalyzerFields))
    ELSE [issues |-> out.val["issues"].val, suggestions |-> out.val["suggestions"].val]

ExpectedOptimized(out) ==
    IF StageFailed(out, OptimizerFields)
    THEN OptimizedPlaceholder(FailureMsg(out, OptimizerFields))
    ELSE out.val["optimized_code"].val

ExpectedTests(out) ==
    IF StageFailed(out, TesterFields)
    THEN TestsPlaceholder(FailureMsg(out, TesterFields))
    ELSE [test_cases |-> out.val["test_cases"].val, test_code |-> out.val["test_code"].val]

(* The model outcome and the output fields behind a key of the record. *)
SourceOutcome(i, k) ==
    IF k \in {"issues", "suggestions"} THEN outA[i]
    ELSE IF k = "optimized_code" THEN outO[i]
    ELSE outT[i]

SourceFields(k) ==
    IF k \in {"issues", "suggestions"} THEN AnalyzerFields
    ELSE IF k = "optimized_code" THEN OptimizerFields
    ELSE TesterFields

(* CodeForge.process has been entered and has been left. *)
ProcessLeft(i) ==
    \/ pc[i] = "done"
    \/ pc[i] = "error" /\ raised[i].type # "gr.Error"

Started(i) == pc[i] \in {"analyze", "optimize", "test", "done"}

-----------------------------------------------------------------------------
(* C1: for every non-empty input string (whitespace-only ones included, when *)
(* process is called directly) and every outcome of the three model calls,   *)
(* the record CodeForge.process returns has exactly the five keys issues,    *)
(* suggestions, optimized_code, test_cases, test_code, each value a str.     *)
C1_FiveStringFields ==
    \A i \in Submissions :
        (code[i] # <<>> /\ ProcessLeft(i)) =>
            /\ pc[i] = "done"
            /\ DOMAIN results[i] = Keys
            /\ \A k \in Keys : results[i][k].type = "str"

C1_Witness ==
    \E i \in Submissions :
        /\ entry[i] = "process"
        /\ pc[i] = "done"
        /\ code[i] = <<" ">>
        /\ CallFailed(outA[i])
        /\ StageSucceeded(outO[i], OptimizerFields)
        /\ StageFailed(outT[i], TesterFields) /\ ~CallFailed(outT[i])

(* C2: a submission to process_code whose input is empty or whitespace-only *)
(* invokes no stage and no model call, ends in the validation error, and     *)
(* produces no Result Record; the validation error is raised only for such   *)
(* inputs, so the pipeline is entered only with a non-whitespace character.  *)
C2_BlankInputRejected ==
    \A i \in Submissions :
        entry[i] = "process_code" =>
            /\ IsBlank(code[i]) =>
                  /\ pc[i] = "error"
                  /\ raised[i] = GrError("Please input some code to analyze!")
                  /\ calls[i] = <<>>
                  /\ outA[i] = NoOutcome /\ outO[i] = NoOutcome /\ outT[i] = NoOutcome
                  /\ DOMAIN results[i] = {}
                  /\ outputs[i] = <<>>
            /\ (Started(i) \/ calls[i] # <<>>) =>
                  \E k \in 1..Len(code[i]) : code[i][k] \notin Whitespace
            /\ pc[i] = "error" => IsBlank(code[i])

C2_Witness ==
    \E i \in Submissions :
        /\ entry[i] = "process_code"
        /\ code[i] = <<" ", "\n">>
        /\ pc[i] = "error"

(* C3: when the Analyzer's model call fails, the run goes on to the          *)
(* Optimizer, whose suggestions argument is exactly the Analyzer's           *)
(* placeholder "No suggestions available", the value that ends up in the     *)
(* record's suggestions field.                                               *)
C3_PlaceholderReachesOptimizer ==
    \A i \in Submissions :
        CallFailed(outA[i]) =>
            /\ pc[i] \in {"optimize", "test", "done"}
            /\ pc[i] \in {"test", "done"} =>
                  /\ Len(calls[i]) >= 2
                  /\ calls[i][2].module = "optimize_code"
                  /\ calls[i][2].suggestions = PyStr("No suggestions available")
                  /\ outO[i] # NoOutcome
            /\ pc[i] = "done" => results[i].suggestions = calls[i][2].suggestions

C3_Witness ==
    \E i \in Submissions :
        /\ CallFailed(outA[i])
        /\ pc[i] = "done"
        /\ StageSucceeded(outO[i], OptimizerFields)

(* C4: of two finished runs on the same code in which the Analyzer and the  *)
(* Optimizer succeeded identically, one with the Test-generator failing and  *)
(* one with it succeeding, the issues, suggestions and optimized_code fields *)
(* are the same.                                                             *)
C4_TestFailureLeavesOthers ==
    \A i, j \in Submissions :
        ( /\ pc[i] = "done" /\ pc[j] = "done"
          /\ code[i] = code[j]
          /\ outA[i] = outA[j] /\ StageSucceeded(outA[i], AnalyzerFields)
          /\ outO[i] = outO[j] /\ StageSucceeded(outO[i], OptimizerFields)
          /\ StageFailed(outT[i], TesterFields)
          /\ StageSucceeded(outT[j], TesterFields) ) =>
            /\ results[i].issues = results[j].issues
            /\ results[i].suggestions = results[j].suggestions
            /\ results[i].optimized_code = results[j].optimized_code

C4_Witness ==
    \E i, j \in Submissions :
        /\ pc[i] = "done" /\ pc[j] = "done"
        /\ code[i] = code[j]
        /\ outA[i] = outA[j] /\ StageSucceeded(outA[i], AnalyzerFields)
        /\ outO[i] = outO[j] /\ StageSucceeded(outO[i], OptimizerFields)
        /\ CallFailed(outT[i])
        /\ StageSucceeded(outT[j], TesterFields)
        /\ results[i].test_cases # results[j].test_cases

(* C5: in every run the model invocations made so far are a prefix of       *)
(* Analyzer, Optimizer, Test-generator, one invocation per stage passed, no  *)
(* stage retried or skipped whether it succeeded or failed.                  *)
C5_OneCallPerStageInOrder ==
    \A i \in Submissions :
        /\ Len(calls[i]) = ( CASE pc[i] = "optimize" -> 1
                               [] pc[i] = "test" -> 2
                               [] pc[i] = "done" -> 3
                               [] OTHER -> 0 )
        /\ \A k \in 1..Len(calls[i]) :
              /\ k <= 3
              /\ calls[i][k].module = StageOrder[k]
              /\ calls[i][k].code = code[i]

C5_Witness ==
    \E i \in Submissions :
        /\ pc[i] = "done"
        /\ Len(calls[i]) = 3
        /\ CallFailed(outA[i]) /\ CallFailed(outO[i]) /\ CallFailed(outT[i])

(* C6: whatever combination of the three model calls fails, a run that has  *)
(* entered CodeForge.process comes to return its record, and no exception    *)
(* of a stage ever leaves the stage.                                         *)
C6_AlwaysReturnsRecord ==
    /\ [](\A i \in Submissions : raised[i].type # "Exception")
    /\ \A i \in Submissions : (pc[i] = "analyze") ~> (pc[i] = "done")

C6_Witness ==
    \E i \in Submissions :
        /\ pc[i] = "done"
        /\ CallFailed(outA[i]) /\ CallFailed(outO[i]) /\ CallFailed(outT[i])
        /\ DOMAIN results[i] = Keys

(* C7 as stated: for a non-empty input every field of the returned record   *)
(* is a non-empty string, whatever the model calls return.                   *)
C7_AllFieldsNonEmpty ==
    \A i \in Submissions :
        (pc[i] = "done" /\ code[i] # <<>>) =>
            \A k \in Keys : results[i][k].val # ""

(* C7 amended: a field of the returned record is empty only when its stage  *)
(* succeeded and the model's own output for that field was the empty         *)
(* string; every field of a failed stage is a non-empty placeholder.         *)
C7_EmptyOnlyFromModel ==
    \A i \in Submissions :
        (pc[i] = "done" /\ code[i] # <<>>) =>
            \A k \in Keys :
                results[i][k].val = "" =>
                    /\ StageSucceeded(SourceOutcome(i, k), SourceFields(k))
                    /\ SourceOutcome(i, k).val[k] = Return(PyStr(""))

C7_Witness ==
    \E i \in Submissions :
        /\ pc[i] = "done" /\ code[i] # <<>>
        /\ CallFailed(outA[i])
        /\ results[i].optimized_code.val = ""
        /\ results[i].suggestions.val # ""

(* C8: a stage whose guarded block fails with message m, in the call or in  *)
(* reading any field, returns its whole placeholder: Analyzer               *)
(* "Analysis error: " + m and "No suggestions available", Optimizer         *)
(* "Optimization error: " + m, Test-generator "Test generation failed: " + m *)
(* and "Unable to generate test code".                                       *)
C8_WholePlaceholder ==
    \A i \in Submissions :
        /\ (pc[i] \in {"optimize", "test", "done"} /\ StageFailed(outA[i], AnalyzerFields)) =>
              analysis[i] = AnalysisPlaceholder(FailureMsg(outA[i], AnalyzerFields))
        /\ (pc[i] \in {"test", "done"} /\ StageFailed(outO[i], OptimizerFields)) =>
              optimized[i] = OptimizedPlaceholder(FailureMsg(outO[i], OptimizerFields))
        /\ (pc[i] = "done" /\ StageFailed(outT[i], TesterFields)) =>
              tests[i] = TestsPlaceholder(FailureMsg(outT[i], TesterFields))

C8_Witness ==
    \E i \in Submissions :
        /\ pc[i] = "done"
        /\ outA[i].kind = "return"
        /\ outA[i].val["issues"] = Return(PyStr("ok"))
        /\ outA[i].val["suggestions"].kind = "raise"
        /\ outT[i].kind = "return"
        /\ outT[i].val["test_cases"] = Return(PyStr("ok"))
        /\ outT[i].val["test_code"].kind = "raise"

(* C9: the Test-generator is invoked with the input code alone, and two     *)
(* finished runs on the same code whose Test-generator model call behaved    *)
(* identically have equal test_cases and test_code, whatever the Analyzer    *)
(* and the Optimizer did.                                                    *)
C9_TestsDependOnCodeOnly ==
    /\ \A i \in Submissions :
          pc[i] = "done" => calls[i][3] = Invocation("generate_tests", code[i], PyNone)
    /\ \A i, j \in Submissions :
          (pc[i] = "done" /\ pc[j] = "done" /\ code[i] = code[j] /\ outT[i] = outT[j]) =>
              /\ results[i].test_cases = results[j].test_cases
              /\ results[i].test_code = results[j].test_code

C9_Witness ==
    \E i, j \in Submissions :
        /\ pc[i] = "done" /\ pc[j] = "done"
        /\ code[i] = code[j] /\ outT[i] = outT[j]
        /\ StageSucceeded(outT[i], TesterFields)
        /\ CallFailed(outA[i]) /\ StageSucceeded(outA[j], AnalyzerFields)
        /\ StageSucceeded(outO[i], OptimizerFields) /\ CallFailed(outO[j])

(* C10: with two submissions interleaved on the one forge, the suggestions  *)
(* a submission's Optimizer receives are that submission's own Analyzer      *)
(* suggestions, every invocation carries its own code, and its record is     *)
(* assembled from the outputs of its own three stage calls.                  *)
C10_NoLeakBetweenRuns ==
    \A i \in Submissions :
        /\ \A k \in 1..Len(calls[i]) : calls[i][k].code = code[i]
        /\ pc[i] \in {"test", "done"} =>
              calls[i][2].suggestions = ExpectedAnalysis(outA[i]).suggestions
        /\ pc[i] = "done" =>
              results[i] = [issues |-> ExpectedAnalysis(outA[i]).issues,
                            suggestions |-> ExpectedAnalysis(outA[i]).suggestions,
                            optimized_code |-> ExpectedOptimized(outO[i]),
                            test_cases |-> ExpectedTests(outT[i]).test_cases,
                            test_code |-> ExpectedTests(outT[i]).test_code]

C10_Witness ==
    /\ pc["s1"] = "test"
    /\ pc["s2"] = "test"
    /\ code["s1"] # code["s2"]
    /\ analysis["s1"].suggestions # analysis["s2"].suggestions
    /\ calls["s1"][2].suggestions = analysis["s1"].suggestions
    /\ calls["s2"][2].suggestions = analysis["s2"].suggestions

====
